---- MODULE Spec2Model ----
(***************************************************************************)
(* Model of the scene compiler of go-pathtrace (package compiler):         *)
(* Compile, bakeTextures, partitionGeometry, setupCamera and align4.       *)
(*                                                                         *)
(* Go slices are 0-based, TLA+ sequences are 1-based: every index the      *)
(* program stores (child indices, BvhRoot, DataOffset, primitive offsets)  *)
(* is kept as the Go index, and At(s, i) reads s[i] the way Go does.       *)
(***************************************************************************)
EXTENDS Integers, Sequences, FiniteSets, TLC

VARIABLES
    pc,              \* position inside Compile / align4
    parsedScene,     \* the input *scene.ParsedScene
    optimizedScene,  \* sc.optimizedScene, filled in place
    meshBvhRoots,    \* local of partitionGeometry
    vertexOffset,    \* local of partitionGeometry (captured by the leaf callback)
    primOffset,      \* local of partitionGeometry (captured by the leaf callback)
    mIndex,          \* loop index of the per-mesh loop of partitionGeometry
    bvhNodes,        \* local of the per-mesh loop: the mesh's own node array
    cbLog,           \* history: the cursors at the entry of every mesh leaf callback
    result,          \* what Compile returned: [scene, err]
    value,           \* align4: the parameter `value`, mutated by the loop
    alignN,          \* align4: the argument the call was made with
    alignIncs,       \* align4: number of value++ executed so far
    alignRet         \* align4: the returned uint32

vars == <<pc, parsedScene, optimizedScene, meshBvhRoots, vertexOffset, primOffset,
          mIndex, bvhNodes, cbLog, result, value, alignN, alignIncs, alignRet>>

compileVars == <<parsedScene, optimizedScene, meshBvhRoots, vertexOffset, primOffset,
                 mIndex, bvhNodes, cbLog, result>>

alignVars == <<value, alignN, alignIncs, alignRet>>

----------------------------------------------------------------------------
(* Bounds of the model.                                                    *)

\* align4 is exercised on 0..MaxAlignDelta and on 2^32 - MaxAlignDelta .. 2^32 + MaxAlignDelta
MaxAlignDelta == 16
\* longest texture payload, in bytes
MaxTexLen == 8
\* most textures in a scene
MaxTextures == 3
\* most meshes in a scene
MaxMeshes == 2
\* most mesh instances in a scene
MaxInstances == 3
\* the largest mesh has 2 * minPrimitivesPerLeaf + ExtraPrims primitives
ExtraPrims == 1

\* const minPrimitivesPerLeaf
minPrimitivesPerLeaf == 10

----------------------------------------------------------------------------
(* Machine integers.  TLC's integers are 32-bit, Go's int is 64-bit and    *)
(* uint32 reaches 2^32 - 1, so a machine integer is kept as two limbs      *)
(* <<hi, lo>> of value hi * 2^16 + lo, 0 <= lo < 2^16.                      *)

Limb == 2 ^ 16

\* the machine integer of a small natural number
FromNat(n) == <<n \div Limb, n % Limb>>

\* the natural number of a machine integer (for values below 2^31)
ToNat(v) == v[1] * Limb + v[2]

\* value % 4; Limb is a multiple of 4
Mod4(v) == v[2] % 4

\* value + d for a small d >= 0
AddSmall(v, d) == <<v[1] + ((v[2] + d) \div Limb), (v[2] + d) % Limb>>

\* a + b on uint32: wraps at 2^32
Add32(a, b) ==
    LET lo == a[2] + b[2]
        hi == a[1] + b[1] + (lo \div Limb)
    IN  <<hi % Limb, lo % Limb>>

\* a < b and a <= b
Less(a, b) == a[1] < b[1] \/ (a[1] = b[1] /\ a[2] < b[2])
LessEq(a, b) == a = b \/ Less(a, b)

\* the conversion uint32(value): keeps the low 32 bits
uint32(v) == <<v[1] % Limb, v[2]>>

----------------------------------------------------------------------------
(* align4                                                                  *)

\* mutant: the loop tests value%2
Align4TestMod2(v) == v[2] % 2 = 0

\* `if value%4 == 0`
Align4Test(v) == Mod4(v) = 0

\* `value++`
Align4Inc(v) == AddSmall(v, 1)

RECURSIVE align4(_)
\* the whole call: loop until value%4 == 0, return uint32(value)
align4(v) == IF Align4Test(v) THEN uint32(v) ELSE align4(Align4Inc(v))

\* the arguments align4 is called with under SpecAlign
AlignInputs ==
    { FromNat(d) : d \in 0..MaxAlignDelta }
    \cup { <<Limb - 1, Limb - d>> : d \in 1..MaxAlignDelta }
    \cup { <<Limb, d>> : d \in 0..MaxAlignDelta }

----------------------------------------------------------------------------
(* Go slices                                                               *)

\* s[i] with a Go index
At(s, i) == s[i + 1]

\* s[i] = x with a Go index
Put(s, i, x) == [s EXCEPT ![i + 1] = x]

\* the sequence f with its elements evaluated (TLC keeps [j \in 1..n |-> e] unevaluated)
Slice(f) == SubSeq(f, 1, Len(f))

\* make([]T, n): n zero values
Make(n, zero) == Slice([j \in 1..n |-> zero])

\* whether a Go index is inside the slice
InRange(s, i) == i >= 0 /\ i < Len(s)

\* F(x) with x evaluated first, once (Go evaluates arguments before the call)
Call(F(_), x) == CHOOSE r \in {F(y) : y \in {x}} : TRUE

----------------------------------------------------------------------------
(* Vectors                                                                 *)

ZeroVec2 == <<0, 0>>
ZeroVec4 == <<0, 0, 0, 0>>

\* Vec3.Vec4(w): promotion to four components
Vec4(v, w) == <<v[1], v[2], v[3], w>>

Min2(x, y) == IF x <= y THEN x ELSE y
Max2(x, y) == IF x >= y THEN x ELSE y

\* component-wise minimum / maximum of two Vec3
MinVec(a, b) == <<Min2(a[1], b[1]), Min2(a[2], b[2]), Min2(a[3], b[3])>>
MaxVec(a, b) == <<Max2(a[1], b[1]), Max2(a[2], b[2]), Max2(a[3], b[3])>>

----------------------------------------------------------------------------
(* BVH nodes (scene.BvhNode)                                               *)

\* a node that only has its bounding box: neither children nor a payload yet
NewNode(bmin, bmax) ==
    [min |-> bmin, max |-> bmax, type |-> "unset", left |-> 0, right |-> 0]

\* BvhNode.SetChildNodes
SetChildNodes(node, l, r) == [node EXCEPT !.type = "internal", !.left = l, !.right = r]

\* BvhNode.SetPrimitives(firstPrimitive, count)
SetPrimitives(node, first, count) ==
    [node EXCEPT !.type = "primitives", !.left = first, !.right = count]

\* BvhNode.SetMeshIndex(index)
SetMeshIndex(node, index) == [node EXCEPT !.type = "instance", !.left = index]

\* BvhNode.OffsetChildNodes(offset): child indices of an internal node move by offset
OffsetChildNodes(node, offset) ==
    IF node.type = "internal"
    THEN [node EXCEPT !.left = @ + offset, !.right = @ + offset]
    ELSE node

----------------------------------------------------------------------------
(* BuildBVH: top-down median split over bounded volumes.  A bounded volume *)
(* is [ref, min, max, center]: ref is the concrete value behind the        *)
(* BoundedVolume interface (a mesh instance pointer or a primitive).       *)

RECURSIVE BBoxMinFrom(_, _, _), BBoxMaxFrom(_, _, _)
\* the bounding box grown by work[k..]
BBoxMinFrom(work, k, acc) ==
    IF k > Len(work) THEN acc
    ELSE Call(LAMBDA a : BBoxMinFrom(work, k + 1, a), MinVec(acc, work[k].min))
BBoxMaxFrom(work, k, acc) ==
    IF k > Len(work) THEN acc
    ELSE Call(LAMBDA a : BBoxMaxFrom(work, k + 1, a), MaxVec(acc, work[k].max))

\* bounding box of a non-empty work list
BBoxMin(work) == BBoxMinFrom(work, 2, work[1].min)
BBoxMax(work) == BBoxMaxFrom(work, 2, work[1].max)

\* the split axis: the first axis of longest extent
SplitAxis(bmin, bmax) ==
    CHOOSE a \in 1..3 :
        /\ \A b \in 1..3 : bmax[a] - bmin[a] >= bmax[b] - bmin[b]
        /\ \A b \in 1..(a - 1) : bmax[b] - bmin[b] < bmax[a] - bmin[a]

\* the work list ordered by centroid along axis, equal centroids in their original order
SortByCenter(work, axis) ==
    LET n == Len(work)
        key == [j \in 1..n |-> work[j].center[axis]]
    IN  Call(LAMBDA rank :
                 Slice([p \in 1..n |-> work[CHOOSE j \in 1..n : rank[j] = p - 1]]),
             Call(LAMBDA ky :
                      Slice([j \in 1..n |->
                                Cardinality({k \in 1..n :
                                    ky[k] < ky[j] \/ (ky[k] = ky[j] /\ k < j)})]),
                  Slice(key)))

\* where the ordered work list is cut: the median
SplitPoint(n) == n \div 2

RECURSIVE partition(_, _, _)
\* one call of the recursive partition: appends the subtree of `work` to b.nodes (the
\* node first, then its left and its right subtree) and the leaves it made, in the
\* order it made them, to b.leaves
partition(b, work, minLeafItems) ==
    LET index == Len(b.nodes)
        mid   == SplitPoint(Len(work))
        \* the node of this call, with its bounding box
        Node  == IF Len(work) = 0
                 THEN NewNode(<<0, 0, 0>>, <<0, 0, 0>>)
                 ELSE NewNode(BBoxMin(work), BBoxMax(work))
        \* the right half, after the left half b1 was built
        Right(node, sorted, b1) ==
            Call(LAMBDA b2 : [b2 EXCEPT !.nodes = Put(@, index,
                                  SetChildNodes(node, index + 1, Len(b1.nodes)))],
                 partition(b1, SubSeq(sorted, mid + 1, Len(work)), minLeafItems))
        \* the left half, then the right half
        Split(node, sorted) ==
            Call(LAMBDA b1 : Right(node, sorted, b1),
                 partition([b EXCEPT !.nodes = Append(@, node)],
                           SubSeq(sorted, 1, mid), minLeafItems))
    IN  Call(LAMBDA node :
                 IF Len(work) <= minLeafItems
                 THEN [nodes  |-> Append(b.nodes, node),
                       leaves |-> Append(b.leaves, [node |-> index, workList |-> work])]
                 ELSE Call(LAMBDA sorted : Split(node, sorted),
                           SortByCenter(work, SplitAxis(node.min, node.max))),
             Node)

\* BuildBVH(workList, minLeafItems, leafCb) without the callback: the node array, root
\* at index 0, and the leaves in creation order; the caller applies leafCb to them in
\* that order
BuildBVH(workList, minLeafItems) ==
    Call(LAMBDA work : partition([nodes |-> <<>>, leaves |-> <<>>], work, minLeafItems),
         Slice(workList))

----------------------------------------------------------------------------
(* Inputs: textures                                                        *)

Nil == "nil"

\* a texture whose payload has len bytes, none of them zero, told apart by seed
Tex(len, seed) ==
    [Format |-> seed, Width |-> len, Height |-> 1,
     Data   |-> Slice([j \in 1..len |-> 1 + ((seed + j) % 3)])]

\* payload lengths of the textures of SpecTex
TexLens == {0, 1, 3, 4, 5, MaxTexLen}

TexInputs == { Tex(len, seed) : len \in TexLens, seed \in 0..1 }

\* all sequences over S of length at most n
SeqsUpTo(S, n) == UNION { [1..k -> S] : k \in 0..n }

\* the camera of every input scene
InputCamera == [FOV |-> 45, Eye |-> <<0, 0, 5>>, Look |-> <<0, 0, 0>>, Up |-> <<0, 1, 0>>]

\* &scene.Scene{}: every slice nil, no camera
EmptyScene ==
    [TextureData |-> <<>>, TextureMetadata |-> <<>>, BvhNodeList |-> <<>>,
     VertexList |-> <<>>, NormalList |-> <<>>, UvList |-> <<>>, MaterialIndex |-> <<>>,
     MeshInstanceList |-> <<>>, Camera |-> Nil]

\* Compile has not returned.  Of a returned result, scene is <<>> for a nil *scene.Scene
\* and <<s>> for a pointer to s, and err is Nil or the error's message
NoResult == [returned |-> FALSE, scene |-> <<>>, err |-> Nil, panic |-> Nil]

----------------------------------------------------------------------------
(* bakeTextures                                                            *)

RECURSIVE TotalDataLen(_)
\* first loop: totalDataLen += align4(len(tex.Data)), on uint32
TotalDataLen(textures) ==
    IF Len(textures) = 0
    THEN FromNat(0)
    ELSE Add32(TotalDataLen(SubSeq(textures, 1, Len(textures) - 1)),
               align4(FromNat(Len(textures[Len(textures)].Data))))

\* copy(dst[offset:], src): copies min(len(dst) - offset, len(src)) bytes
CopyAt(dst, offset, src) ==
    Slice([j \in 1..Len(dst) |->
              IF j > offset /\ j <= offset + Len(src) THEN src[j - offset] ELSE dst[j]])

\* mutant: the running offset advances by the unpadded length
NextOffsetUnpadded(offset, tex) == Add32(offset, uint32(FromNat(Len(tex.Data))))

\* `offset += uint32(align4(len(tex.Data)))`
NextOffset(offset, tex) == Add32(offset, uint32(align4(FromNat(Len(tex.Data)))))

RECURSIVE BakeLoop(_, _, _)
\* second loop, from texture `index` on (a Go index); st = [data, meta, offset, panic]
BakeLoop(st, textures, index) ==
    IF index >= Len(textures) \/ st.panic # Nil
    THEN st
    ELSE LET tex == At(textures, index)
             m   == [Format |-> tex.Format, Width |-> tex.Width, Height |-> tex.Height,
                     DataOffset |-> st.offset]
         IN  IF Less(FromNat(Len(st.data)), st.offset)
             THEN [st EXCEPT !.meta = Put(@, index, m),
                             !.panic = "slice bounds out of range: TextureData"]
             ELSE BakeLoop([st EXCEPT !.meta = Put(@, index, m),
                                      !.data = CopyAt(@, ToNat(st.offset), tex.Data),
                                      !.offset = NextOffset(@, tex)],
                           textures, index + 1)

ZeroMetadata == [Format |-> 0, Width |-> 0, Height |-> 0, DataOffset |-> FromNat(0)]

\* the whole of bakeTextures
bakeTextures(textures) ==
    BakeLoop([data   |-> Make(ToNat(TotalDataLen(textures)), 0),
              meta   |-> Make(Len(textures), ZeroMetadata),
              offset |-> FromNat(0),
              panic  |-> Nil],
             textures, 0)

\* Compile, lines 22-30: create the compiler and run bakeTextures
BakeTextures ==
    /\ pc = "bakeTextures"
    /\ \E st \in {bakeTextures(parsedScene.Textures)} :
           /\ optimizedScene' = [optimizedScene EXCEPT !.TextureData = st.data,
                                                       !.TextureMetadata = st.meta]
           /\ IF st.panic # Nil
              THEN /\ pc' = "panic"
                   /\ result' = [result EXCEPT !.panic = st.panic]
              ELSE /\ pc' = "partitionGeometry"
                   /\ UNCHANGED result
    /\ UNCHANGED <<parsedScene, meshBvhRoots, vertexOffset, primOffset, mIndex,
                   bvhNodes, cbLog>>
    /\ UNCHANGED alignVars

\* the locals of partitionGeometry and of align4 before they exist
IdleLocals ==
    /\ meshBvhRoots = <<>>
    /\ vertexOffset = 0
    /\ primOffset = 0
    /\ mIndex = 0
    /\ bvhNodes = <<>>
    /\ cbLog = <<>>
    /\ result = NoResult

IdleAlign ==
    /\ value = FromNat(0)
    /\ alignN = FromNat(0)
    /\ alignIncs = 0
    /\ alignRet = <<>>

\* a scene with textures only, about to be baked
InitTex ==
    /\ pc = "bakeTextures"
    /\ \E texs \in SeqsUpTo(TexInputs, MaxTextures) :
          parsedScene = [Textures |-> Slice(texs), Meshes |-> <<>>, MeshInstances |-> <<>>,
                         Camera |-> InputCamera]
    /\ optimizedScene = EmptyScene
    /\ IdleLocals
    /\ IdleAlign

\* bakeTextures on its own
SpecTex == InitTex /\ [][BakeTextures]_vars

----------------------------------------------------------------------------
(* align4, statement by statement                                          *)

\* a call align4(n)
InitAlign ==
    /\ pc = "align4"
    /\ alignN \in AlignInputs
    /\ value = alignN
    /\ alignIncs = 0
    /\ alignRet = <<>>
    /\ parsedScene = [Textures |-> <<>>, Meshes |-> <<>>, MeshInstances |-> <<>>,
                      Camera |-> InputCamera]
    /\ optimizedScene = EmptyScene
    /\ IdleLocals

\* `if value%4 == 0 { return uint32(value) }`
Align4Return ==
    /\ pc = "align4"
    /\ Align4Test(value)
    /\ alignRet' = uint32(value)
    /\ pc' = "align4_returned"
    /\ UNCHANGED <<value, alignN, alignIncs>>
    /\ UNCHANGED compileVars

\* `value++`
Align4Step ==
    /\ pc = "align4"
    /\ ~Align4Test(value)
    /\ value' = Align4Inc(value)
    /\ alignIncs' = alignIncs + 1
    /\ UNCHANGED <<pc, alignN, alignRet>>
    /\ UNCHANGED compileVars

NextAlign == Align4Return \/ Align4Step

SpecAlign == InitAlign /\ [][NextAlign]_vars

----------------------------------------------------------------------------
(* Inputs: meshes and mesh instances                                       *)

\* primitive i of mesh m: a triangle with unit legs in the plane z = m.  Every third
\* primitive declares two UV coordinates, the others three
Primitive(m, i) ==
    LET base == <<2 * ((5 * i) % 13), 2 * (i % 3), m>>
    IN  [Vertices |-> <<base,
                        <<base[1] + 1, base[2], base[3]>>,
                        <<base[1], base[2] + 1, base[3]>>>>,
         Normals  |-> << <<i, 1, 1>>, <<i, 2, 1>>, <<i, 3, 1>> >>,
         UVs      |-> Slice([k \in 1..(IF i % 3 = 2 THEN 2 ELSE 3) |-> <<i + 1, k>>]),
         MaterialIndex |-> (i + m) % 3]

\* a mesh of n primitives at position m of the mesh list
Mesh(m, n) == [Primitives |-> Slice([j \in 1..n |-> Primitive(m, j - 1)])]

\* primitive counts of the input meshes
PrimCounts == {0, 3, minPrimitivesPerLeaf + 1, 2 * minPrimitivesPerLeaf + ExtraPrims}

\* the mesh lists of the input scenes
MeshInputs ==
    { Slice([m \in 1..Len(counts) |-> Mesh(m - 1, counts[m])]) :
        counts \in SeqsUpTo(PrimCounts, MaxMeshes) }

\* the ParsedMeshInstance objects; a mesh instance list holds pointers (1-based
\* positions in Heap), and the same pointer may be listed more than once
Heap ==
    << [MeshIndex |-> 0, Transform |-> [m |-> 1, inverted |-> FALSE], center |-> <<0, 0, 0>>],
       [MeshIndex |-> 0, Transform |-> [m |-> 2, inverted |-> FALSE], center |-> <<10, 0, 0>>],
       [MeshIndex |-> 1, Transform |-> [m |-> 3, inverted |-> FALSE], center |-> <<0, 8, 0>>] >>

InstanceInputs == { Slice(s) : s \in SeqsUpTo(1..Len(Heap), MaxInstances) }

\* Mat4.Inv()
Inv(t) == [t EXCEPT !.inverted = ~@]

\* ParsedPrimitive as a BoundedVolume: BBox() and Center() (the centroid times 3)
PrimitiveVolume(prim) ==
    LET v == prim.Vertices
    IN  [ref    |-> prim,
         min    |-> MinVec(v[1], MinVec(v[2], v[3])),
         max    |-> MaxVec(v[1], MaxVec(v[2], v[3])),
         center |-> <<v[1][1] + v[2][1] + v[3][1],
                      v[1][2] + v[2][2] + v[3][2],
                      v[1][3] + v[2][3] + v[3][3]>>]

\* *ParsedMeshInstance as a BoundedVolume
InstanceVolume(ptr) ==
    LET c == Heap[ptr].center
    IN  [ref    |-> ptr,
         min    |-> <<c[1] - 1, c[2] - 1, c[3] - 1>>,
         max    |-> <<c[1] + 1, c[2] + 1, c[3] + 1>>,
         center |-> c]

----------------------------------------------------------------------------
(* partitionGeometry, lines 84-99: the instance-level tree                 *)

\* the leaf threshold of the instance-level tree
InstanceLeafThreshold == 1

\* the search of the callback: the first index whose pointer equals pmi, or -1
FindInstance(instances, pmi) ==
    LET found == {index \in 0..(Len(instances) - 1) : At(instances, index) = pmi}
    IN  IF found = {} THEN -1
        ELSE CHOOSE index \in found : \A other \in found : index <= other

\* the leaf callback of the instance-level tree; st = [nodes, panic]
InstanceLeafCb(st, leaf, instances) ==
    IF Len(leaf.workList) = 0
    THEN [st EXCEPT !.panic = "index out of range: workList[0]"]
    ELSE LET index == FindInstance(instances, leaf.workList[1].ref)
         IN  IF index < 0 THEN st
             ELSE [st EXCEPT !.nodes = Put(@, leaf.node,
                                           SetMeshIndex(At(@, leaf.node), index))]

RECURSIVE InstanceLeaves(_, _, _, _)
\* the callback on leaves k.. in creation order
InstanceLeaves(st, leaves, k, instances) ==
    IF k > Len(leaves) \/ st.panic # Nil
    THEN st
    ELSE InstanceLeaves(InstanceLeafCb(st, leaves[k], instances), leaves, k + 1, instances)

\* lines 84-99
PartitionInstances ==
    /\ pc = "partitionGeometry"
    /\ LET instances == parsedScene.MeshInstances
           volList == [j \in 1..Len(instances) |-> InstanceVolume(instances[j])]
           Built(b) ==
               InstanceLeaves([nodes |-> b.nodes, panic |-> Nil], b.leaves, 1, instances)
       IN  \E st \in {Call(Built, BuildBVH(volList, InstanceLeafThreshold))} :
           IF st.panic # Nil
           THEN /\ pc' = "panic"
                /\ result' = [result EXCEPT !.panic = st.panic]
                /\ UNCHANGED optimizedScene
           ELSE /\ pc' = "allocate"
                /\ optimizedScene' = [optimizedScene EXCEPT !.BvhNodeList = st.nodes]
                /\ UNCHANGED result
    /\ UNCHANGED <<parsedScene, meshBvhRoots, vertexOffset, primOffset, mIndex,
                   bvhNodes, cbLog>>
    /\ UNCHANGED alignVars

----------------------------------------------------------------------------
(* partitionGeometry, lines 101-116: sizes, pre-allocation, cursors        *)

RECURSIVE TotalVertices(_)
\* totalVertices += 3 * len(pm.Primitives)
TotalVertices(meshes) ==
    IF Len(meshes) = 0 THEN 0
    ELSE 3 * Len(meshes[1].Primitives) + TotalVertices(Tail(meshes))

AllocateLists ==
    /\ pc = "allocate"
    /\ LET totalVertices == TotalVertices(parsedScene.Meshes)
       IN  optimizedScene' =
               [optimizedScene EXCEPT !.VertexList = Make(totalVertices, ZeroVec4),
                                      !.NormalList = Make(totalVertices, ZeroVec4),
                                      !.UvList = Make(totalVertices, ZeroVec2),
                                      !.MaterialIndex = Make(totalVertices \div 3, 0)]
    /\ vertexOffset' = 0
    /\ primOffset' = 0
    /\ meshBvhRoots' = Make(Len(parsedScene.Meshes), 0)
    /\ mIndex' = 0
    /\ pc' = "meshLoop"
    /\ UNCHANGED <<parsedScene, bvhNodes, cbLog, result>>
    /\ UNCHANGED alignVars

----------------------------------------------------------------------------
(* partitionGeometry, lines 117-147: one mesh's tree and its leaf callback *)

\* mutant: a mesh tree is built with the leaf threshold of the instance-level tree
MeshLeafThresholdOfInstances == InstanceLeafThreshold

\* the leaf threshold BuildBVH is given for a mesh (line 123)
MeshLeafThreshold == minPrimitivesPerLeaf

\* lines 131-137: the vertex and normal writes of one primitive, as <<list, index, value>>
VertexWrites(prim, vo) ==
    << <<"VertexList", vo + 0, Vec4(prim.Vertices[1], 0)>>,
       <<"VertexList", vo + 1, Vec4(prim.Vertices[2], 0)>>,
       <<"VertexList", vo + 2, Vec4(prim.Vertices[3], 0)>>,
       <<"NormalList", vo + 0, Vec4(prim.Normals[1], 0)>>,
       <<"NormalList", vo + 1, Vec4(prim.Normals[2], 0)>>,
       <<"NormalList", vo + 2, Vec4(prim.Normals[3], 0)>> >>

\* lines 139-140: the UV writes of one primitive
UvWrites(prim, vo) ==
    << <<"UvList", vo + 0, prim.UVs[1]>>,
       <<"UvList", vo + 1, prim.UVs[2]>> >>

\* line 142
MaterialWrites(prim, po) == << <<"MaterialIndex", po, prim.MaterialIndex>> >>

\* mutant: the vertex cursor advances by one
AdvanceVertexByOne(vo) == vo + 1

\* line 144: vertexOffset += 3
AdvanceVertex(vo) == vo + 3

\* line 145: primOffset++
AdvancePrim(po) == po + 1

RECURSIVE DoWrites(_, _, _)
\* the writes in program order; an index outside its list panics and ends the callback.
\* st has the four lists as st.lists[name]
DoWrites(st, writes, k) ==
    IF k > Len(writes) THEN st
    ELSE LET w == writes[k]
         IN  IF ~InRange(st.lists[w[1]], w[2])
             THEN [st EXCEPT !.panic = "index out of range: " \o w[1]]
             ELSE Call(LAMBDA s : DoWrites(s, writes, k + 1),
                       [st EXCEPT !.lists[w[1]] = Put(@, w[2], w[3])])

\* lines 127-146: the body of the loop over the leaf's work items
CopyPrimitive(st, prim) ==
    Call(LAMBDA st1 :
             IF st1.panic # Nil THEN st1
             ELSE [st1 EXCEPT !.vertexOffset = AdvanceVertex(@),
                              !.primOffset = AdvancePrim(@)],
         DoWrites(st, VertexWrites(prim, st.vertexOffset)
                      \o UvWrites(prim, st.vertexOffset)
                      \o MaterialWrites(prim, st.primOffset), 1))

RECURSIVE CopyPrimitives(_, _, _)
CopyPrimitives(st, workList, k) ==
    IF k > Len(workList) \/ st.panic # Nil THEN st
    ELSE Call(LAMBDA s : CopyPrimitives(s, workList, k + 1),
              CopyPrimitive(st, workList[k].ref))

\* lines 123-147: the leaf callback of a mesh tree
PrimitiveLeafCb(st, leaf) ==
    CopyPrimitives(
        [st EXCEPT !.nodes = Put(@, leaf.node,
                                 SetPrimitives(At(@, leaf.node), st.primOffset,
                                               Len(leaf.workList))),
                   !.log = Append(@, [primOffset |-> st.primOffset,
                                      vertexOffset |-> st.vertexOffset,
                                      count |-> Len(leaf.workList)])],
        leaf.workList, 1)

RECURSIVE PrimitiveLeaves(_, _, _)
\* the callback on leaves k.. in creation order
PrimitiveLeaves(st, leaves, k) ==
    IF k > Len(leaves) \/ st.panic # Nil THEN st
    ELSE Call(LAMBDA s : PrimitiveLeaves(s, leaves, k + 1),
              PrimitiveLeafCb(st, leaves[k]))

\* the four flat lists of the scene
ListsOf(sc) ==
    [VertexList |-> sc.VertexList, NormalList |-> sc.NormalList,
     UvList |-> sc.UvList, MaterialIndex |-> sc.MaterialIndex]

\* lines 117-147: build the tree of mesh mIndex into bvhNodes
BuildMeshBvh ==
    /\ pc = "meshLoop"
    /\ mIndex < Len(parsedScene.Meshes)
    /\ LET pm == At(parsedScene.Meshes, mIndex)
           volList == [j \in 1..Len(pm.Primitives) |-> PrimitiveVolume(pm.Primitives[j])]
           Built(b) ==
               PrimitiveLeaves([nodes |-> b.nodes, lists |-> ListsOf(optimizedScene),
                                vertexOffset |-> vertexOffset, primOffset |-> primOffset,
                                log |-> cbLog, panic |-> Nil],
                               b.leaves, 1)
       IN  \E st \in {Call(Built, BuildBVH(volList, MeshLeafThreshold))} :
           /\ optimizedScene' = [optimizedScene EXCEPT
                                    !.VertexList = st.lists.VertexList,
                                    !.NormalList = st.lists.NormalList,
                                    !.UvList = st.lists.UvList,
                                    !.MaterialIndex = st.lists.MaterialIndex]
           /\ vertexOffset' = st.vertexOffset
           /\ primOffset' = st.primOffset
           /\ cbLog' = st.log
           /\ bvhNodes' = st.nodes
           /\ IF st.panic # Nil
              THEN /\ pc' = "panic"
                   /\ result' = [result EXCEPT !.panic = st.panic]
              ELSE /\ pc' = "merge"
                   /\ UNCHANGED result
    /\ UNCHANGED <<parsedScene, meshBvhRoots, mIndex>>
    /\ UNCHANGED alignVars

----------------------------------------------------------------------------
(* partitionGeometry, lines 149-156: rebase and append                     *)

\* mutant: the offset is taken after the mesh's nodes were appended
MergeOffsetAfterAppend(nodeList) == Len(nodeList) + Len(bvhNodes)

\* line 150: offset := int32(len(sc.optimizedScene.BvhNodeList))
MergeOffset(nodeList) == Len(nodeList)

\* mutant: the root is recorded by its place in the mesh's own array
MeshRootLocal(offset) == 0

\* line 151: meshBvhRoots[mIndex] = uint32(offset)
MeshRoot(offset) == offset

\* mutant: the rebased nodes are put in front of the list
MergeNodesInFront(nodeList, nodes) == nodes \o nodeList

\* line 155: append(sc.optimizedScene.BvhNodeList, bvhNodes...)
MergeNodes(nodeList, nodes) == nodeList \o nodes

MergeMeshBvh ==
    /\ pc = "merge"
    /\ \E offset \in {MergeOffset(optimizedScene.BvhNodeList)} :
       \E rebased \in {Slice([j \in 1..Len(bvhNodes) |->
                                    OffsetChildNodes(bvhNodes[j], offset)])} :
           /\ meshBvhRoots' = Put(meshBvhRoots, mIndex, MeshRoot(offset))
           /\ bvhNodes' = rebased
           /\ optimizedScene' =
                  [optimizedScene EXCEPT !.BvhNodeList = MergeNodes(@, rebased)]
    /\ mIndex' = mIndex + 1
    /\ pc' = "meshLoop"
    /\ UNCHANGED <<parsedScene, vertexOffset, primOffset, cbLog, result>>
    /\ UNCHANGED alignVars

----------------------------------------------------------------------------
(* partitionGeometry, lines 158-169: the mesh instances                    *)

ZeroMeshInstance == [MeshIndex |-> 0, BvhRoot |-> 0, Transform |-> Nil]

RECURSIVE InstanceLoop(_, _, _, _)
\* the loop from instance `index` on (a Go index); st = [list, panic]
InstanceLoop(st, instances, roots, index) ==
    IF index >= Len(instances) \/ st.panic # Nil THEN st
    ELSE LET pmi == Heap[At(instances, index)]
         IN  IF ~InRange(roots, pmi.MeshIndex)
             THEN [st EXCEPT !.list = Put(@, index, [At(@, index) EXCEPT
                                                        !.MeshIndex = pmi.MeshIndex]),
                             !.panic = "index out of range: meshBvhRoots"]
             ELSE InstanceLoop(
                      [st EXCEPT !.list = Put(@, index,
                                              [MeshIndex |-> pmi.MeshIndex,
                                               BvhRoot   |-> At(roots, pmi.MeshIndex),
                                               Transform |-> Inv(pmi.Transform)])],
                      instances, roots, index + 1)

ProcessInstances ==
    /\ pc = "meshLoop"
    /\ mIndex >= Len(parsedScene.Meshes)
    /\ LET instances == parsedScene.MeshInstances
       IN  \E st \in {InstanceLoop([list |-> Make(Len(instances), ZeroMeshInstance),
                                    panic |-> Nil],
                                   instances, meshBvhRoots, 0)} :
           /\ optimizedScene' = [optimizedScene EXCEPT !.MeshInstanceList = st.list]
           /\ IF st.panic # Nil
              THEN /\ pc' = "panic"
                   /\ result' = [result EXCEPT !.panic = st.panic]
              ELSE /\ pc' = "setupCamera"
                   /\ UNCHANGED result
    /\ UNCHANGED <<parsedScene, meshBvhRoots, vertexOffset, primOffset, mIndex,
                   bvhNodes, cbLog>>
    /\ UNCHANGED alignVars

----------------------------------------------------------------------------
(* setupCamera and the return of Compile, lines 43-48                      *)

SetupCamera ==
    /\ pc = "setupCamera"
    /\ LET cam == parsedScene.Camera
           sc  == [optimizedScene EXCEPT
                      !.Camera = [FOV |-> cam.FOV, Position |-> cam.Eye,
                                  LookAt |-> cam.Look, Up |-> cam.Up]]
       IN  /\ optimizedScene' = sc
           /\ result' = [returned |-> TRUE, scene |-> <<sc>>, err |-> Nil, panic |-> Nil]
    /\ pc' = "done"
    /\ UNCHANGED <<parsedScene, meshBvhRoots, vertexOffset, primOffset, mIndex,
                   bvhNodes, cbLog>>
    /\ UNCHANGED alignVars

----------------------------------------------------------------------------
(* Compile                                                                 *)

\* the textures of the scenes given to Compile
CompileTextures == <<Tex(3, 0), Tex(5, 1)>>

Init ==
    /\ pc = "bakeTextures"
    /\ \E meshes \in MeshInputs, instances \in InstanceInputs :
          parsedScene = [Textures |-> CompileTextures, Meshes |-> meshes,
                         MeshInstances |-> instances, Camera |-> InputCamera]
    /\ optimizedScene = EmptyScene
    /\ IdleLocals
    /\ IdleAlign

Next ==
    \/ BakeTextures
    \/ PartitionInstances
    \/ AllocateLists
    \/ BuildMeshBvh
    \/ MergeMeshBvh
    \/ ProcessInstances
    \/ SetupCamera

Spec == Init /\ [][Next]_vars

----------------------------------------------------------------------------
(* What the claims speak of                                                *)

\* n padded to the next multiple of 4, in closed form
PadTo4(n) == ((n + 3) \div 4) * 4

RECURSIVE SumPadded(_, _)
\* the padded payload lengths of textures 1..k, summed
SumPadded(textures, k) ==
    IF k = 0 THEN 0 ELSE SumPadded(textures, k - 1) + PadTo4(Len(textures[k].Data))

\* bakeTextures has run
Baked == pc # "bakeTextures" /\ pc # "align4" /\ pc # "align4_returned"

\* every mesh was built and merged: BvhNodeList is final
NodeListFinal ==
    \/ pc = "meshLoop" /\ mIndex >= Len(parsedScene.Meshes)
    \/ pc = "setupCamera"
    \/ pc = "done"
    \/ pc = "panic" /\ result.panic = "index out of range: meshBvhRoots"

\* partitionGeometry has returned
Partitioned == pc = "setupCamera" \/ pc = "done"

\* the bounded volumes of the instances and of mesh k (a Go index)
InstanceVolumes ==
    LET instances == parsedScene.MeshInstances
    IN  [j \in 1..Len(instances) |-> InstanceVolume(instances[j])]
MeshVolumes(k) ==
    LET prims == At(parsedScene.Meshes, k).Primitives
    IN  [j \in 1..Len(prims) |-> PrimitiveVolume(prims[j])]

\* number of nodes of the instance-level tree and of the tree of mesh k
TopNodeCount == Len(BuildBVH(InstanceVolumes, InstanceLeafThreshold).nodes)
MeshNodeCount(k) == Len(BuildBVH(MeshVolumes(k), MeshLeafThreshold).nodes)

RECURSIVE PrimStart(_)
\* the global position of the first primitive of mesh k
PrimStart(k) ==
    IF k = 0 THEN 0
    ELSE PrimStart(k - 1) + Len(At(parsedScene.Meshes, k - 1).Primitives)

NumMeshes == Len(parsedScene.Meshes)
NumInstances == Len(parsedScene.MeshInstances)

RECURSIVE SubtreeStartsUpTo(_)
\* where the subtrees of meshes 0..k-1 start in the final BvhNodeList, and where the
\* subtree of mesh k starts (for k = number of meshes: the length of the final list)
SubtreeStartsUpTo(k) ==
    IF k = 0 THEN <<TopNodeCount>>
    ELSE Call(LAMBDA starts : Append(starts, starts[k] + MeshNodeCount(k - 1)),
              SubtreeStartsUpTo(k - 1))

\* the starts of all subtrees, then the length of the final list
SubtreeStarts == SubtreeStartsUpTo(NumMeshes)

\* the same boundaries as partitionGeometry recorded them: the mesh roots, then the
\* length of the list
RecordedStarts == meshBvhRoots \o <<Len(optimizedScene.BvhNodeList)>>

\* the subtree a node index belongs to, given the starts of the subtrees: -1 for the
\* instance-level tree, else the mesh
SubtreeOf(starts, g) ==
    IF g < starts[1] THEN -1
    ELSE CHOOSE k \in 0..(Len(starts) - 2) : starts[k + 1] <= g /\ g < starts[k + 2]

RECURSIVE Covered(_, _)
\* the global primitive positions of the leaves under node g
Covered(nodes, g) ==
    LET node == At(nodes, g)
    IN  IF node.type = "primitives" THEN node.left..(node.left + node.right - 1)
        ELSE IF node.type = "internal"
        THEN Covered(nodes, node.left) \cup Covered(nodes, node.right)
        ELSE {}

RECURSIVE Flatten(_, _)
\* the work lists of leaves 1..k, one after the other
Flatten(leaves, k) ==
    IF k = 0 THEN <<>> ELSE Flatten(leaves, k - 1) \o leaves[k].workList

RECURSIVE WrittenOrder(_)
\* the primitives of meshes 0..k-1 in the order their leaves were made
WrittenOrder(k) ==
    IF k = 0 THEN <<>>
    ELSE LET b == BuildBVH(MeshVolumes(k - 1), MeshLeafThreshold)
         IN  WrittenOrder(k - 1) \o Flatten(b.leaves, Len(b.leaves))

\* the panics of the writes into the flat lists
WritePanics ==
    {"index out of range: VertexList", "index out of range: NormalList",
     "index out of range: UvList", "index out of range: MaterialIndex"}

\* the primitive leaves of the final list, in list order, as <<offset, count>>
PrimitiveLeafRanges ==
    LET nodes == optimizedScene.BvhNodeList
        at == {g \in 1..Len(nodes) : nodes[g].type = "primitives"}
        Nth(n) == CHOOSE g \in at : Cardinality({h \in at : h < g}) = n - 1
    IN  [n \in 1..Cardinality(at) |-> <<nodes[Nth(n)].left, nodes[Nth(n)].right>>]

----------------------------------------------------------------------------
(* C8: align4                                                              *)

\* C8 as stated: for every non-negative n, align4(n) >= n, align4(n) % 4 = 0,
\* align4(n) - n < 4 and align4(align4(n)) = align4(n), and the loop returns after at
\* most 3 increments
C8_Original ==
    /\ alignIncs <= 3
    /\ pc = "align4_returned" =>
          /\ LessEq(alignN, alignRet)
          /\ Mod4(alignRet) = 0
          /\ Less(alignRet, AddSmall(alignN, 4))
          /\ align4(alignRet) = alignRet

\* C8, amended: for every n with 0 <= n <= 2^32 - 4, align4(n) >= n and
\* align4(n) - n < 4; for every non-negative n, align4(n) % 4 = 0 and
\* align4(align4(n)) = align4(n), the value returned is the low 32 bits of the next
\* multiple of 4, and the loop returns after at most 3 increments
C8_Align4 ==
    /\ alignIncs <= 3
    /\ (pc = "align4" /\ alignIncs = 3) => Align4Test(value)
    /\ pc = "align4_returned" =>
          /\ Mod4(alignRet) = 0
          /\ align4(alignRet) = alignRet
          /\ alignRet = align4(alignN)
          /\ alignRet = uint32(AddSmall(alignN, (4 - Mod4(alignN)) % 4))
          /\ LessEq(alignN, <<Limb - 1, Limb - 4>>) =>
                /\ LessEq(alignN, alignRet)
                /\ Less(alignRet, AddSmall(alignN, 4))

\* align4(2^32 - 7) has returned 2^32 - 4 after three increments
C8_Witness ==
    /\ pc = "align4_returned"
    /\ alignN = <<Limb - 1, Limb - 7>>
    /\ alignIncs = 3
    /\ alignRet = <<Limb - 1, Limb - 4>>

----------------------------------------------------------------------------
(* C4: bakeTextures                                                        *)

\* C4: after bakeTextures, TextureMetadata has one entry per texture in input order,
\* entry i's DataOffset is the sum of the padded payload lengths of the textures before
\* it (a multiple of 4), len(TextureData) is the sum over all textures, and
\* TextureData[DataOffset_i, DataOffset_i + len_i) is texture i's payload, inside the
\* buffer and disjoint from every other texture's payload
C4_TextureLayout ==
    Baked =>
        LET texs == parsedScene.Textures
            meta == optimizedScene.TextureMetadata
            data == optimizedScene.TextureData
            Off(i) == ToNat(meta[i].DataOffset)
        IN  /\ result.panic # "slice bounds out of range: TextureData"
            /\ Len(meta) = Len(texs)
            /\ Len(data) = SumPadded(texs, Len(texs))
            /\ \A i \in 1..Len(texs) :
                  /\ meta[i].Format = texs[i].Format
                  /\ meta[i].Width = texs[i].Width
                  /\ meta[i].Height = texs[i].Height
                  /\ Off(i) = SumPadded(texs, i - 1)
                  /\ Off(i) % 4 = 0
                  /\ Off(i) + Len(texs[i].Data) <= Len(data)
                  /\ SubSeq(data, Off(i) + 1, Off(i) + Len(texs[i].Data)) = texs[i].Data
                  /\ \A j \in (i + 1)..Len(texs) :
                        Off(i) + Len(texs[i].Data) <= Off(j)

\* textures of payload lengths 3, 5 and 8 were baked at offsets 0, 4 and 12 into a
\* buffer of 4 + 8 + 8 = 20 bytes
C4_Witness ==
    /\ Baked
    /\ Len(parsedScene.Textures) = 3
    /\ [i \in 1..3 |-> Len(parsedScene.Textures[i].Data)] = <<3, 5, 8>>
    /\ [i \in 1..3 |-> ToNat(optimizedScene.TextureMetadata[i].DataOffset)] = <<0, 4, 12>>
    /\ Len(optimizedScene.TextureData) = 20

----------------------------------------------------------------------------
(* C1: child indices of the final node list                                *)

\* C1: once BvhNodeList is final, both child indices of every internal node are below
\* len(BvhNodeList) and point into the subtree (the instance-level tree or the same
\* mesh's tree) the node itself belongs to
C1_ChildIndices ==
    NodeListFinal =>
        LET nodes == optimizedScene.BvhNodeList
        IN  \A starts \in {RecordedStarts} :
            /\ Len(starts) = NumMeshes + 1
            /\ \A k \in 1..NumMeshes : starts[k] < starts[k + 1]
            /\ \A g \in 0..(Len(nodes) - 1) :
                  At(nodes, g).type = "internal" =>
                      /\ InRange(nodes, At(nodes, g).left)
                      /\ InRange(nodes, At(nodes, g).right)
                      /\ SubtreeOf(starts, At(nodes, g).left) = SubtreeOf(starts, g)
                      /\ SubtreeOf(starts, At(nodes, g).right) = SubtreeOf(starts, g)

\* Compile returned a scene whose instance-level tree and whose two mesh trees each
\* have an internal root
C1_Witness ==
    /\ pc = "done"
    /\ NumMeshes = 2
    /\ At(optimizedScene.BvhNodeList, 0).type = "internal"
    /\ At(optimizedScene.BvhNodeList, At(meshBvhRoots, 0)).type = "internal"
    /\ At(optimizedScene.BvhNodeList, At(meshBvhRoots, 1)).type = "internal"

----------------------------------------------------------------------------
(* C2: the BVH root of every mesh instance                                 *)

----------------------------------------------------------------------------
(* C3: primitive ranges and cursors                                        *)

\* C3: the {primitiveOffset, primitiveCount} ranges of the mesh-level leaves, in build
\* order, are contiguous from 0 and, once every mesh is built, end at the total
\* primitive count; at every leaf callback vertexOffset = 3 * primOffset, and no write
\* falls outside VertexList, NormalList, UvList or MaterialIndex
C3_PrimitiveRanges ==
    /\ vertexOffset = 3 * primOffset
    /\ result.panic \notin WritePanics
    /\ \A n \in 1..Len(cbLog) :
          /\ cbLog[n].vertexOffset = 3 * cbLog[n].primOffset
          /\ cbLog[n].primOffset = (IF n = 1 THEN 0
                                    ELSE cbLog[n - 1].primOffset + cbLog[n - 1].count)
          /\ cbLog[n].primOffset + cbLog[n].count <= Len(optimizedScene.MaterialIndex)
          /\ 3 * (cbLog[n].primOffset + cbLog[n].count) <= Len(optimizedScene.VertexList)
    /\ NodeListFinal =>
          /\ primOffset = PrimStart(NumMeshes)
          /\ Len(optimizedScene.MaterialIndex) = PrimStart(NumMeshes)
          /\ Len(optimizedScene.VertexList) = 3 * PrimStart(NumMeshes)
          /\ Len(optimizedScene.NormalList) = 3 * PrimStart(NumMeshes)
          /\ Len(optimizedScene.UvList) = 3 * PrimStart(NumMeshes)
          /\ PrimitiveLeafRanges
                 = [n \in 1..Len(cbLog) |-> <<cbLog[n].primOffset, cbLog[n].count>>]
          /\ \A p \in 0..(PrimStart(NumMeshes) - 1) :
                Cardinality({n \in 1..Len(cbLog) :
                    cbLog[n].primOffset <= p /\ p < cbLog[n].primOffset + cbLog[n].count}) = 1

\* two meshes were built, the first into several leaves, and the cursors stand at the
\* total primitive count
C3_Witness ==
    /\ NodeListFinal
    /\ NumMeshes = 2
    /\ Len(cbLog) >= 4
    /\ cbLog[2].primOffset > 0
    /\ primOffset = PrimStart(2)
    /\ primOffset > 2 * minPrimitivesPerLeaf

----------------------------------------------------------------------------
(* C5: a dangling mesh index                                               *)

\* some mesh instance refers to a mesh that does not exist
DanglingMeshIndex ==
    \E i \in 1..NumInstances : Heap[parsedScene.MeshInstances[i]].MeshIndex >= NumMeshes

\* C5: when a mesh instance's MeshIndex refers to no mesh, Compile ends by returning a
\* nil scene and a non-nil error
C5_DanglingIsError ==
    (DanglingMeshIndex /\ (pc = "done" \/ pc = "panic")) =>
        /\ result.returned
        /\ result.scene = <<>>
        /\ result.err # Nil

----------------------------------------------------------------------------
(* C6: UvList                                                              *)

\* the vertices and normals of the primitive written at global position p are at 3p+k
C6_VerticesAndNormals ==
    NodeListFinal =>
        \A order \in {WrittenOrder(NumMeshes)} :
        \A p \in 0..(Len(order) - 1) : \A k \in 0..2 :
            /\ At(optimizedScene.VertexList, 3 * p + k)
                   = Vec4(order[p + 1].ref.Vertices[k + 1], 0)
            /\ At(optimizedScene.NormalList, 3 * p + k)
                   = Vec4(order[p + 1].ref.Normals[k + 1], 0)
            /\ At(optimizedScene.MaterialIndex, p) = order[p + 1].ref.MaterialIndex

\* C6: after the mesh loop, for the primitive written at global position p,
\* UvList[3p+k] is that primitive's k-th UV coordinate, for every k the primitive
\* declares
C6_UvPerVertex ==
    NodeListFinal =>
        \A order \in {WrittenOrder(NumMeshes)} :
        \A p \in 0..(Len(order) - 1) :
            \A k \in 0..(Len(order[p + 1].ref.UVs) - 1) :
                At(optimizedScene.UvList, 3 * p + k) = order[p + 1].ref.UVs[k + 1]

----------------------------------------------------------------------------
(* C7: leaf sizes of the mesh trees                                        *)

\* the primitive counts of the leaves of mesh k's subtree in the final list
LeafCountsOfMesh(starts, k) ==
    LET nodes == optimizedScene.BvhNodeList
    IN  { <<g, At(nodes, g).right>> :
            g \in {h \in starts[k + 1]..(starts[k + 2] - 1) : At(nodes, h).type # "internal"} }

\* C7 as stated: no mesh-level leaf holds fewer than minPrimitivesPerLeaf primitives,
\* except in a mesh of fewer primitives than that, which has a single leaf holding all
C7_Original ==
    NodeListFinal =>
        \A starts \in {RecordedStarts} : \A k \in 0..(NumMeshes - 1) :
            LET total  == Len(At(parsedScene.Meshes, k).Primitives)
                leaves == LeafCountsOfMesh(starts, k)
            IN  IF total < minPrimitivesPerLeaf
                THEN leaves = {<<starts[k + 1], total>>}
                ELSE \A leaf \in leaves : leaf[2] >= minPrimitivesPerLeaf

\* C7, amended: no mesh-level leaf holds more than T = minPrimitivesPerLeaf primitives;
\* a mesh of at most T primitives has a single leaf holding all of them; every leaf of
\* a larger mesh holds at least (T + 1) div 2 primitives
C7_LeafSizes ==
    NodeListFinal =>
        \A starts \in {RecordedStarts} : \A k \in 0..(NumMeshes - 1) :
            LET total  == Len(At(parsedScene.Meshes, k).Primitives)
                leaves == LeafCountsOfMesh(starts, k)
            IN  /\ \A leaf \in leaves :
                      /\ At(optimizedScene.BvhNodeList, leaf[1]).type = "primitives"
                      /\ leaf[2] <= minPrimitivesPerLeaf
                /\ IF total <= minPrimitivesPerLeaf
                   THEN leaves = {<<starts[k + 1], total>>}
                   ELSE \A leaf \in leaves : leaf[2] >= (minPrimitivesPerLeaf + 1) \div 2

\* a mesh of more than 2 T primitives was built into leaves, one of exactly T and one
\* of exactly (T + 1) div 2 primitives, and a mesh of fewer than T into one leaf
C7_Witness ==
    /\ NodeListFinal
    /\ NumMeshes = 2
    /\ Len(At(parsedScene.Meshes, 0).Primitives) > 2 * minPrimitivesPerLeaf
    /\ Len(At(parsedScene.Meshes, 1).Primitives) \in 1..(minPrimitivesPerLeaf - 1)
    /\ \E g, h \in 0..(At(meshBvhRoots, 1) - 1) :
          /\ At(optimizedScene.BvhNodeList, g).type = "primitives"
          /\ At(optimizedScene.BvhNodeList, g).right = (minPrimitivesPerLeaf + 1) \div 2
          /\ At(optimizedScene.BvhNodeList, h).type = "primitives"
          /\ At(optimizedScene.BvhNodeList, h).right = minPrimitivesPerLeaf
    /\ At(optimizedScene.BvhNodeList, At(meshBvhRoots, 1)).right
           = Len(At(parsedScene.Meshes, 1).Primitives)

----------------------------------------------------------------------------
(* C9: the instance-level tree                                             *)

\* C9: in the instance-level tree every leaf holds one mesh instance and stores its
\* position in MeshInstances, and every position in [0, number of instances) is stored
\* on exactly one leaf, also when an instance object is listed more than once
C9_InstanceLeaves ==
    pc = "allocate" =>
        LET nodes == optimizedScene.BvhNodeList
        IN  /\ \A g \in 1..Len(nodes) : nodes[g].type \in {"internal", "instance"}
            /\ \A index \in 0..(NumInstances - 1) :
                  Cardinality({g \in 1..Len(nodes) :
                      nodes[g].type = "instance" /\ nodes[g].left = index}) = 1

\* C9 holds of the scenes that list no instance object twice
C9_DistinctInstances ==
    (\A i, j \in 1..NumInstances :
        parsedScene.MeshInstances[i] = parsedScene.MeshInstances[j] => i = j)
    => C9_InstanceLeaves

----------------------------------------------------------------------------
(* C10: the merge step                                                     *)

\* C10: the merge of mesh k's nodes rebases them once, by the length BvhNodeList has
\* just before they are appended, leaves every node already in the list where and as it
\* was, and moves on to mesh k + 1; the nodes merged are those of mesh k
C10_MergeFrame ==
    [][pc = "merge" =>
          LET old == optimizedScene.BvhNodeList
              new == optimizedScene'.BvhNodeList
              off == Len(old)
          IN  /\ Len(new) = off + Len(bvhNodes)
              /\ SubSeq(new, 1, off) = old
              /\ \A j \in 1..Len(bvhNodes) :
                    /\ new[off + j].type = bvhNodes[j].type
                    /\ new[off + j].min = bvhNodes[j].min
                    /\ new[off + j].max = bvhNodes[j].max
                    /\ IF bvhNodes[j].type = "internal"
                       THEN /\ new[off + j].left = bvhNodes[j].left + off
                            /\ new[off + j].right = bvhNodes[j].right + off
                       ELSE /\ new[off + j].left = bvhNodes[j].left
                            /\ new[off + j].right = bvhNodes[j].right
              /\ Covered(bvhNodes, 0) = PrimStart(mIndex)..(PrimStart(mIndex + 1) - 1)
              /\ mIndex' = mIndex + 1
              /\ pc' = "meshLoop"]_vars

\* the second mesh was merged behind an instance-level tree and a first mesh tree that
\* both have internal nodes, and has internal nodes itself
C10_Witness ==
    /\ pc = "meshLoop"
    /\ mIndex = 2
    /\ At(optimizedScene.BvhNodeList, 0).type = "internal"
    /\ At(optimizedScene.BvhNodeList, At(meshBvhRoots, 0)).type = "internal"
    /\ At(optimizedScene.BvhNodeList, At(meshBvhRoots, 1)).type = "internal"
    /\ At(meshBvhRoots, 1) > At(meshBvhRoots, 0)

====
